---- MODULE Spec2Model ----
(***************************************************************************)
(* Model of the ctrl project registry: the Manifest data model and its     *)
(* TOML store (src/src/config/mod.rs) and the command handlers that load,  *)
(* mutate and save it (src/src/slack/handler.rs).  Handlers are async      *)
(* functions: a handler runs atomically up to an awaited post_message and  *)
(* several handlers can be in flight at once.                              *)
(* Spec runs the handlers; RouterSpec runs on_slash_commands               *)
(* (src/src/slack/mod.rs); StoreSpec runs write_manifest and read_manifest *)
(* step by step; LookupSpec applies the indexed project lookups.           *)
(***************************************************************************)
EXTENDS Integers, Sequences, FiniteSets, TLC

\* ---------------------------------------------------------------- bounds
\* commands of a run in which they are handled one after another
MaxCommands == 5
\* commands of a run in which they overlap, and how many overlap at most
MaxRaceCommands == 3
MaxInFlight == 2
\* pieces of a command text, and commands of a run through the router
MaxTextLen == 3
MaxRouterCommands == 2
\* saves and loads of a run on the store alone
MaxStoreOps == 3

\* ---------------------------------------------------------------- inputs
Handlers == 1..MaxInFlight
Names == {"widgets", "gadgets"}
Channels == {"C1", "C2"}
ChatIds == {"U1", "U2"}
Usernames == {"alice", "bob"}
Repos == {"acme/widgets"}
Subcommands == {"github", "jira"}
\* the channel the commands other than create are sent from
ReplyChannels == {"C1"}

\* Option<T>: None is <<>>, Some(x) is <<x>>
None == <<>>

Some(x) == <<x>>

is_none(o) == o = <<>>

unwrap(o) == o[1]

NoArg == "-"

\* ---------------------------------------------------------------- HashMap
EmptyMap == [k \in {} |-> k]

contains_key(map, k) == k \in DOMAIN map

insert(map, k, v) == [x \in (DOMAIN map) \cup {k} |-> IF x = k THEN v ELSE map[x]]

\* clear() instead of remove(k)
remove_key_all(map, k) == EmptyMap

remove_key(map, k) == [x \in (DOMAIN map) \ {k} |-> map[x]]

\* ---------------------------------------------------------------- Vec
Range(s) == {s[i] : i \in 1..Len(s)}

\* a membership test that never finds the entry
contains_never(vec, x) == FALSE

contains(vec, x) == x \in Range(vec)

push(vec, x) == Append(vec, x)

\* retain with the predicate inverted
retain_eq(vec, x) == SelectSeq(vec, LAMBDA y : y = x)

retain_ne(vec, x) == SelectSeq(vec, LAMBDA y : y # x)

\* ---------------------------------------------------------------- config
DefaultManifest ==
    [projects |-> EmptyMap,
     managers |-> <<>>,
     configured_project |-> "amcwb/ctrl",
     profiles |-> EmptyMap]

\* a new project whose repository is the empty string instead of None
NewProject_empty_repo(channel_id) ==
    [slack_channel |-> channel_id,
     github_repo |-> Some(""),
     project_owners |-> <<>>,
     jira_project |-> None]

NewProject(channel_id) ==
    [slack_channel |-> channel_id,
     github_repo |-> None,
     project_owners |-> <<>>,
     jira_project |-> None]

\* a lookup that makes up a profile for an unknown chat identity
get_user_by_slack_id_or_default(m, slack_id) ==
    IF contains_key(m.profiles, slack_id) THEN Some(m.profiles[slack_id])
    ELSE Some([github_username |-> slack_id])

get_user_by_slack_id(m, slack_id) ==
    IF contains_key(m.profiles, slack_id) THEN Some(m.profiles[slack_id]) ELSE None

\* the handlers address the target by chat mention
get_user_by_slack_mention(m, user_id) == get_user_by_slack_id(m, user_id)

\* entry().or_insert() instead of insert(): an existing link is kept
set_user_github_username_if_absent(m, slack_id, github_username) ==
    IF contains_key(m.profiles, slack_id) THEN m
    ELSE [m EXCEPT !.profiles = insert(@, slack_id, [github_username |-> github_username])]

set_user_github_username(m, slack_id, github_username) ==
    [m EXCEPT !.profiles = insert(@, slack_id, [github_username |-> github_username])]

get_project_by_name(m, project_name) ==
    IF contains_key(m.projects, project_name) THEN Some(m.projects[project_name]) ELSE None

\* manifest.projects.get(slack_channel)
get_project_by_slack_channel(m, slack_channel) ==
    IF contains_key(m.projects, slack_channel) THEN Some(m.projects[slack_channel]) ELSE None

\* option.as_ref().unwrap_or(&default)
unwrap_or(o, default) == IF is_none(o) THEN default ELSE unwrap(o)

\* map.values()
values(map) == {map[k] : k \in DOMAIN map}

\* .find(pred), given the values that satisfy pred: the first of them in
\* the HashMap's iteration order, which is any of them
find(hits) == IF hits = {} THEN {None} ELSE {Some(v) : v \in hits}

get_project_by_github_repo(m, github_repo) ==
    find({project \in values(m.projects) :
             unwrap_or(project.github_repo, "") = github_repo})

get_project_by_jira_project(m, jira_project) ==
    find({project \in values(m.projects) :
             unwrap_or(project.jira_project, "") = jira_project})

\* ---------------------------------------------------------------- TOML
\* toml::to_string_pretty: an Option field that is None has no key
TomlKeys(project) ==
    {"slack_channel", "project_owners"}
        \cup (IF is_none(project.github_repo) THEN {} ELSE {"github_repo"})
        \cup (IF is_none(project.jira_project) THEN {} ELSE {"jira_project"})

TomlProject(project) ==
    [key \in TomlKeys(project) |->
        CASE key = "slack_channel" -> project.slack_channel
          [] key = "project_owners" -> project.project_owners
          [] key = "github_repo" -> unwrap(project.github_repo)
          [] key = "jira_project" -> unwrap(project.jira_project)]

to_string_pretty(m) ==
    [projects |-> [n \in DOMAIN m.projects |-> TomlProject(m.projects[n])],
     managers |-> m.managers,
     configured_project |-> m.configured_project,
     profiles |-> m.profiles]

\* a parser that reads a missing repository key as the empty string
ParseProject_unwrap_or_empty(table) ==
    [slack_channel |-> table["slack_channel"],
     github_repo |-> IF "github_repo" \in DOMAIN table THEN Some(table["github_repo"])
                     ELSE Some(""),
     project_owners |-> table["project_owners"],
     jira_project |-> IF "jira_project" \in DOMAIN table THEN Some(table["jira_project"]) ELSE None]

\* toml::from_str: a missing Option key deserializes to None
ParseProject(table) ==
    [slack_channel |-> table["slack_channel"],
     github_repo |-> IF "github_repo" \in DOMAIN table THEN Some(table["github_repo"]) ELSE None,
     project_owners |-> table["project_owners"],
     jira_project |-> IF "jira_project" \in DOMAIN table THEN Some(table["jira_project"]) ELSE None]

from_str(doc) ==
    [projects |-> [n \in DOMAIN doc.projects |-> ParseProject(doc.projects[n])],
     managers |-> doc.managers,
     configured_project |-> doc.configured_project,
     profiles |-> doc.profiles]

\* ---------------------------------------------------------------- store
\* manifest.toml: contents is <<>> for no bytes, <<doc>> for a document
NoFile == [exists |-> FALSE, contents |-> <<>>]

\* a save that writes the default Manifest
written_default(m) == [exists |-> TRUE, contents |-> <<to_string_pretty(DefaultManifest)>>]

written(m) == [exists |-> TRUE, contents |-> <<to_string_pretty(m)>>]

\* a load that always resets the file to the default Manifest
file_after_read_reset(f) == [exists |-> TRUE, contents |-> <<to_string_pretty(DefaultManifest)>>]

\* the fields of Manifest that are not an Option must be in the document
RequiredKeys == {"projects", "managers", "configured_project", "profiles"}

parses(contents) == contents # <<>> /\ RequiredKeys \subseteq DOMAIN contents[1]

\* a load that also replaces a file it cannot parse by the default Manifest
file_after_read_repair(f) ==
    IF ~f.exists \/ ~parses(f.contents) THEN written(DefaultManifest) ELSE f

\* read_manifest creates the file with the default Manifest when it is absent
file_after_read(f) == IF ~f.exists THEN written(DefaultManifest) ELSE f

\* a fallback to a derived Default, whose configured_project is empty
from_str_or_empty(contents) ==
    IF parses(contents) THEN from_str(contents[1])
    ELSE [DefaultManifest EXCEPT !.configured_project = ""]

\* toml::from_str(&contents).unwrap_or(Default::default())
from_str_or_default(contents) ==
    IF parses(contents) THEN from_str(contents[1]) ELSE DefaultManifest

\* read_manifest's result; a parse failure falls back to the default
read_manifest(f) == from_str_or_default(file_after_read(f).contents)

\* ---------------------------------------------------------------- state
VARIABLES
    file,     \* manifest.toml
    h,        \* the handler invocations in flight: position and locals
    last,     \* the invocation that returned last, as the user saw it
    issued,   \* commands received so far
    workers   \* how many commands the transport lets be handled at once

vars == <<file, h, last, issued, workers>>

NoArgs == [id |-> 0, op |-> NoArg, channel_id |-> NoArg, project_name |-> NoArg,
           user_id |-> NoArg, subcommand |-> NoArg, value |-> NoArg, text |-> <<>>]

\* args:     the handler's parameters (id numbers the commands)
\* loads:    completed read_manifest() calls
\* loaded:   what read_manifest() returned (add / remove keep it as manifest_clone)
\* manifest: the local `manifest`
\* sent:     the messages post_message delivered
\* saves:    completed write_manifest(&manifest) calls
\* missed:   the commands that saved after this invocation loaded
Idle == [pc |-> "idle", args |-> NoArgs, loads |-> 0, loaded |-> DefaultManifest,
         manifest |-> DefaultManifest, sent |-> <<>>, saves |-> 0, missed |-> {}]

\* found:    what a lookup returned
NoResult == [outcome |-> NoArg, args |-> NoArgs, loads |-> 0, loaded |-> DefaultManifest,
             manifest |-> DefaultManifest, sent |-> <<>>, saves |-> 0, missed |-> {},
             found |-> None]

Init ==
    /\ file = NoFile
    /\ h = [p \in Handlers |-> Idle]
    /\ last = NoResult
    /\ issued = 0
    /\ workers \in 1..MaxInFlight

\* ---------------------------------------------------------------- steps
\* a command arrives and a handler is called for it (the slots are
\* interchangeable, so the lowest free one is taken)
Call(p) ==
    /\ h[p].pc = "idle"
    /\ \A q \in Handlers : q < p => h[q].pc # "idle"
    /\ p <= workers
    /\ issued < (IF workers = 1 THEN MaxCommands ELSE MaxRaceCommands)
    /\ issued' = issued + 1
    /\ UNCHANGED workers

\* the frame of a handler that has just called read_manifest()
Loaded(a) == [Idle EXCEPT !.args = a, !.loads = 1, !.loaded = read_manifest(file),
                          !.manifest = read_manifest(file)]

\* the other invocations in flight learn nothing of a save
Others(p, a, saved) ==
    [q \in Handlers \ {p} |->
        IF saved /\ h[q].pc # "idle" THEN [h[q] EXCEPT !.missed = @ \cup {a}] ELSE h[q]]

\* the handler goes on to `fr`, suspended at an await
Suspend(p, fr, saved) ==
    /\ h' = [q \in Handlers |-> IF q = p THEN fr ELSE Others(p, fr.args, saved)[q]]
    /\ UNCHANGED last

\* the handler returns
Return(p, fr, result, saved) ==
    /\ h' = [q \in Handlers |-> IF q = p THEN Idle ELSE Others(p, fr.args, saved)[q]]
    /\ last' = [outcome |-> result, args |-> fr.args, loads |-> fr.loads,
                loaded |-> fr.loaded,
                manifest |-> fr.manifest, sent |-> fr.sent, saves |-> fr.saves,
                missed |-> fr.missed, found |-> None]

\* respond_text(..).await delivers `text`, then the handler goes on to `next`
Respond(p, label, text, next) ==
    /\ h[p].pc = label
    /\ Suspend(p, [h[p] EXCEPT !.pc = next, !.sent = Append(@, text)], FALSE)
    /\ UNCHANGED <<file, issued, workers>>

\* respond_text(..).await delivers `text`, then the handler returns
RespondReturn(p, label, text, result) ==
    /\ h[p].pc = label
    /\ Return(p, [h[p] EXCEPT !.sent = Append(@, text)], result, FALSE)
    /\ UNCHANGED <<file, issued, workers>>

\* a handler that returns without its write_manifest(&manifest)
WriteReturn_nosave(p, label) ==
    /\ h[p].pc = label
    /\ Return(p, h[p], "Ok", FALSE)
    /\ UNCHANGED <<file, issued, workers>>

\* crate::config::write_manifest(&manifest); and the handler returns
WriteReturn(p, label) ==
    /\ h[p].pc = label
    /\ file' = written(h[p].manifest)
    /\ Return(p, [h[p] EXCEPT !.saves = @ + 1], "Ok", TRUE)
    /\ UNCHANGED <<issued, workers>>

\* ---------------------------------------------------------------- create
\* the existence check of create left out
already_exists_never(m, project_name) == FALSE

already_exists(m, project_name) == contains_key(m.projects, project_name)

Create(p, channel_id, project_name) ==
    LET a == [NoArgs EXCEPT !.id = issued + 1, !.op = "create",
                            !.channel_id = channel_id, !.project_name = project_name]
        fr == Loaded(a)
    IN  /\ Call(p)
        /\ file' = file_after_read(file)
        /\ IF already_exists(fr.manifest, project_name)
           THEN \* respond_text(..) is not awaited: nothing is sent
                Return(p, fr, "AlreadyExists", FALSE)
           ELSE Suspend(p, [fr EXCEPT !.pc = "create_respond",
                                      !.manifest.projects =
                                          insert(@, project_name, NewProject(channel_id))],
                        FALSE)

CreateRespond(p) == Respond(p, "create_respond", "created", "create_write")

CreateWrite(p) == WriteReturn(p, "create_write")

\* ---------------------------------------------------------------- delete
Delete(p, channel_id, project_name) ==
    LET a == [NoArgs EXCEPT !.id = issued + 1, !.op = "delete",
                            !.channel_id = channel_id, !.project_name = project_name]
        fr == Loaded(a)
    IN  /\ Call(p)
        /\ file' = file_after_read(file)
        /\ IF ~contains_key(fr.manifest.projects, project_name)
           THEN Return(p, fr, "NotFound", FALSE)
           ELSE Suspend(p, [fr EXCEPT !.pc = "delete_respond",
                                      !.manifest.projects = remove_key(@, project_name)],
                        FALSE)

DeleteRespond(p) == Respond(p, "delete_respond", "deleted", "delete_write")

DeleteWrite(p) == WriteReturn(p, "delete_write")

\* ---------------------------------------------------------------- add
\* the checks of add with the profile looked up before the project
add_check_unlinked_first(m, manifest_clone, project_name, user_id) ==
    LET user == get_user_by_slack_mention(manifest_clone, user_id)
    IN  IF is_none(user) THEN "Unlinked"
        ELSE IF ~contains_key(m.projects, project_name) THEN "NotFound"
        ELSE IF contains(m.projects[project_name].project_owners,
                         unwrap(user).github_username) THEN "AlreadyOwner"
        ELSE "Ok"

\* the checks of add, in the order of the code
add_check(m, manifest_clone, project_name, user_id) ==
    LET user == get_user_by_slack_mention(manifest_clone, user_id)
    IN  IF ~contains_key(m.projects, project_name) THEN "NotFound"
        ELSE IF is_none(user) THEN "Unlinked"
        ELSE IF contains(m.projects[project_name].project_owners,
                         unwrap(user).github_username) THEN "AlreadyOwner"
        ELSE "Ok"

\* project.project_owners.push(user.github_username.clone());
add_owner(m, manifest_clone, project_name, user_id) ==
    [m EXCEPT !.projects[project_name].project_owners =
        push(@, unwrap(get_user_by_slack_mention(manifest_clone, user_id)).github_username)]

Add(p, channel_id, project_name, user_id) ==
    LET a == [NoArgs EXCEPT !.id = issued + 1, !.op = "add", !.channel_id = channel_id,
                            !.project_name = project_name, !.user_id = user_id]
        fr == Loaded(a)
        check == add_check(fr.manifest, fr.loaded, project_name, user_id)
    IN  /\ Call(p)
        /\ file' = file_after_read(file)
        /\ IF check = "NotFound"
           THEN Return(p, fr, "NotFound", FALSE)
           ELSE IF check = "Unlinked"
           THEN Suspend(p, [fr EXCEPT !.pc = "add_unlinked"], FALSE)
           ELSE IF check = "AlreadyOwner"
           THEN Return(p, fr, "AlreadyOwner", FALSE)
           ELSE Suspend(p, [fr EXCEPT !.pc = "add_respond",
                                      !.manifest = add_owner(@, fr.loaded, project_name, user_id)],
                        FALSE)

\* user_not_linked(socket_mode, channel_id).await; return;
AddUnlinked(p) == RespondReturn(p, "add_unlinked", "not_linked", "Unlinked")

AddRespond(p) == Respond(p, "add_respond", "added", "add_write")

AddWrite(p) == WriteReturn(p, "add_write")

\* ---------------------------------------------------------------- remove
\* the checks of remove, in the order of the code
remove_check(m, manifest_clone, project_name, user_id) ==
    LET user == get_user_by_slack_mention(manifest_clone, user_id)
    IN  IF ~contains_key(m.projects, project_name) THEN "NotFound"
        ELSE IF is_none(user) THEN "Unlinked"
        ELSE IF ~contains(m.projects[project_name].project_owners,
                          unwrap(user).github_username) THEN "NotOwner"
        ELSE "Ok"

\* project.project_owners.retain(|x| x != &user.github_username);
remove_owner(m, manifest_clone, project_name, user_id) ==
    [m EXCEPT !.projects[project_name].project_owners =
        retain_ne(@, unwrap(get_user_by_slack_mention(manifest_clone, user_id)).github_username)]

Remove(p, channel_id, project_name, user_id) ==
    LET a == [NoArgs EXCEPT !.id = issued + 1, !.op = "remove", !.channel_id = channel_id,
                            !.project_name = project_name, !.user_id = user_id]
        fr == Loaded(a)
        check == remove_check(fr.manifest, fr.loaded, project_name, user_id)
    IN  /\ Call(p)
        /\ file' = file_after_read(file)
        /\ IF check = "NotFound"
           THEN Return(p, fr, "NotFound", FALSE)
           ELSE IF check = "Unlinked"
           THEN Suspend(p, [fr EXCEPT !.pc = "remove_unlinked"], FALSE)
           ELSE IF check = "NotOwner"
           THEN Return(p, fr, "NotOwner", FALSE)
           ELSE Suspend(p, [fr EXCEPT !.pc = "remove_respond",
                                      !.manifest = remove_owner(@, fr.loaded, project_name, user_id)],
                        FALSE)

RemoveUnlinked(p) == RespondReturn(p, "remove_unlinked", "not_linked", "Unlinked")

RemoveRespond(p) == Respond(p, "remove_respond", "removed", "remove_write")

RemoveWrite(p) == WriteReturn(p, "remove_write")

\* ---------------------------------------------------------------- github
\* read, mutate and write_manifest run without an await in between
Github(p, channel_id, project_name, repo_name) ==
    LET a == [NoArgs EXCEPT !.id = issued + 1, !.op = "github", !.channel_id = channel_id,
                            !.project_name = project_name, !.value = repo_name]
        fr == Loaded(a)
    IN  /\ Call(p)
        /\ IF ~contains_key(fr.manifest.projects, project_name)
           THEN /\ file' = file_after_read(file)
                /\ Return(p, fr, "NotFound", FALSE)
           ELSE LET m == [fr.manifest EXCEPT
                              !.projects[project_name].github_repo = Some(repo_name)]
                IN  /\ file' = written(m)
                    /\ Suspend(p, [fr EXCEPT !.pc = "github_respond", !.manifest = m,
                                             !.saves = 1],
                               TRUE)

GithubRespond(p) == RespondReturn(p, "github_respond", "repository_set", "Ok")

\* ---------------------------------------------------------------- me
Me(p, channel_id, user_id, subcommand, value) ==
    LET a == [NoArgs EXCEPT !.id = issued + 1, !.op = "me", !.channel_id = channel_id,
                            !.user_id = user_id, !.subcommand = subcommand,
                            !.value = value]
        fr == Loaded(a)
    IN  /\ Call(p)
        /\ IF subcommand = "github"
           THEN /\ file' = file_after_read(file)
                /\ Suspend(p, [fr EXCEPT !.pc = "me_respond",
                                         !.manifest = set_user_github_username(@, user_id, value)],
                           FALSE)
           ELSE /\ UNCHANGED file
                /\ Suspend(p, [Idle EXCEPT !.pc = "me_invalid", !.args = a], FALSE)

MeRespond(p) == Respond(p, "me_respond", "username_set", "me_write")

MeWrite(p) == WriteReturn(p, "me_write")

\* command_not_found(socket_mode, channel_id).await
MeInvalid(p) == RespondReturn(p, "me_invalid", "invalid_command", "InvalidCommand")

\* ---------------------------------------------------------------- project
Project(p, channel_id, project_name) ==
    LET a == [NoArgs EXCEPT !.id = issued + 1, !.op = "project",
                            !.channel_id = channel_id, !.project_name = project_name]
        fr == Loaded(a)
    IN  /\ Call(p)
        /\ file' = file_after_read(file)
        /\ IF ~contains_key(fr.manifest.projects, project_name)
           THEN Return(p, fr, "NotFound", FALSE)
           ELSE Suspend(p, [fr EXCEPT !.pc = "project_respond"], FALSE)

ProjectRespond(p) == RespondReturn(p, "project_respond", "project_info", "Ok")

\* ---------------------------------------------------------------- list
List(p, channel_id) ==
    LET a == [NoArgs EXCEPT !.id = issued + 1, !.op = "list", !.channel_id = channel_id]
    IN  /\ Call(p)
        /\ file' = file_after_read(file)
        /\ Suspend(p, [Loaded(a) EXCEPT !.pc = "list_respond"], FALSE)

\* respond_blocks(..).await
ListRespond(p) == RespondReturn(p, "list_respond", "project_list", "Ok")

\* ---------------------------------------------------------------- spec
\* the inputs of the runs with overlapping commands are fewer
InChannels == IF workers = 1 THEN Channels ELSE ReplyChannels

InChatIds == IF workers = 1 THEN ChatIds ELSE {"U1"}

InSubcommands == IF workers = 1 THEN Subcommands ELSE {"github"}

Next ==
    \E p \in Handlers :
        \/ \E c \in InChannels, n \in Names : Create(p, c, n)
        \/ CreateRespond(p)
        \/ CreateWrite(p)
        \/ \E c \in ReplyChannels, n \in Names : Delete(p, c, n)
        \/ DeleteRespond(p)
        \/ DeleteWrite(p)
        \/ \E c \in ReplyChannels, n \in Names, u \in InChatIds : Add(p, c, n, u)
        \/ AddUnlinked(p)
        \/ AddRespond(p)
        \/ AddWrite(p)
        \/ \E c \in ReplyChannels, n \in Names, u \in InChatIds : Remove(p, c, n, u)
        \/ RemoveUnlinked(p)
        \/ RemoveRespond(p)
        \/ RemoveWrite(p)
        \/ \E c \in ReplyChannels, n \in Names, r \in Repos : Github(p, c, n, r)
        \/ GithubRespond(p)
        \/ \E c \in ReplyChannels, u \in InChatIds, s \in InSubcommands, v \in Usernames :
               Me(p, c, u, s, v)
        \/ MeRespond(p)
        \/ MeWrite(p)
        \/ MeInvalid(p)
        \/ \E c \in ReplyChannels, n \in Names : Project(p, c, n)
        \/ ProjectRespond(p)
        \/ \E c \in ReplyChannels : List(p, c)
        \/ ListRespond(p)

Spec == Init /\ [][Next]_vars

\* ---------------------------------------------------------------- router
\* a command text is a sequence of pieces: a whitespace character or a run
\* of other characters; pieces that touch form one token
Whitespace == " "

Pieces == {Whitespace, "help", "Help"}

\* texts with the other verbs of the command table
TableTexts ==
    {<<"create", Whitespace, "widgets">>,
     <<"github", Whitespace, "widgets", Whitespace, "acme/widgets">>,
     <<"delete", Whitespace, "widgets">>,
     <<"create">>,
     <<"me", Whitespace, "github">>}

RECURSIVE TextsOfLen(_)
TextsOfLen(n) ==
    IF n = 0 THEN {<<>>}
    ELSE {Append(t, c) : t \in TextsOfLen(n - 1), c \in Pieces}

Texts == TableTexts \cup UNION {TextsOfLen(n) : n \in 0..MaxTextLen}

\* text.split_whitespace().collect::<Vec<&str>>(): a token is the sequence
\* of the pieces it is made of
RECURSIVE split_from(_, _, _)
split_from(text, i, word) ==
    IF i > Len(text) THEN (IF word = <<>> THEN <<>> ELSE <<word>>)
    ELSE IF text[i] = Whitespace
    THEN (IF word = <<>> THEN <<>> ELSE <<word>>) \o split_from(text, i + 1, <<>>)
    ELSE split_from(text, i + 1, Append(word, text[i]))

split_whitespace(text) == split_from(text, 1, <<>>)

to_lowercase(piece) == IF piece = "Help" THEN "help" ELSE piece

\* a match arm that ignores the case of the command
matches_ignore_case(command, verb) ==
    Len(command) = 1 /\ to_lowercase(command[1]) = verb

\* the match arm `verb =>` of `match command`
matches(command, verb) == command = <<verb>>

\* where on_slash_commands goes after the ack
dispatch(text) ==
    LET opts == split_whitespace(text)
    IN  IF Len(opts) < 1 THEN "command_not_found"
        ELSE IF matches(opts[1], "help") THEN "help"
        ELSE "command_not_found"

OnSlashCommands(p, channel_id, text) ==
    LET a == [NoArgs EXCEPT !.id = issued + 1, !.op = "on_slash_commands",
                            !.channel_id = channel_id, !.text = text]
    IN  /\ Call(p)
        /\ issued < MaxRouterCommands
        /\ Suspend(p, [Idle EXCEPT !.pc = "ack", !.args = a], FALSE)
        /\ UNCHANGED file

\* ack(&e.envelope_id, s).await, then the text is split and matched
Ack(p) ==
    /\ h[p].pc = "ack"
    /\ Suspend(p, [h[p] EXCEPT !.pc = dispatch(h[p].args.text)], FALSE)
    /\ UNCHANGED <<file, issued, workers>>

\* handler::command_not_found(socket_mode, &channel_id).await
CommandNotFound(p) ==
    RespondReturn(p, "command_not_found", "invalid_command", "InvalidCommand")

\* handler::help(socket_mode, &channel_id).await
Help(p) == RespondReturn(p, "help", "help_text", "Ok")

\* on_slash_commands takes &mut self: one event is handled at a time
RouterInit ==
    /\ file = NoFile
    /\ h = [p \in Handlers |-> Idle]
    /\ last = NoResult
    /\ issued = 0
    /\ workers = 1

RouterNext ==
    \E p \in Handlers :
        \/ \E c \in ReplyChannels, t \in Texts : OnSlashCommands(p, c, t)
        \/ Ack(p)
        \/ CommandNotFound(p)
        \/ Help(p)

RouterSpec == RouterInit /\ [][RouterNext]_vars

\* ---------------------------------------------------------------- store
\* write_manifest and read_manifest step by step, as they run when called
\* from several threads or processes on the same manifest.toml
StoreProjects ==
    [slack_channel : {"C1"},
     github_repo : {None, Some("acme/widgets")},
     project_owners : {<<>>, <<"alice", "bob">>},
     jira_project : {None, Some("WID")}]

StoreMaps == {EmptyMap} \cup {insert(EmptyMap, "widgets", pr) : pr \in StoreProjects}

\* every project map, with the other fields all at their default or none
\* of them
StoreManifests ==
    {[projects |-> ps, managers |-> <<>>, configured_project |-> "amcwb/ctrl",
      profiles |-> EmptyMap] : ps \in StoreMaps}
    \cup {[projects |-> ps, managers |-> <<"alice">>, configured_project |-> "acme/ctrl",
           profiles |-> insert(EmptyMap, "U1", [github_username |-> "alice"])] :
              ps \in StoreMaps}

RaceManifests ==
    {m \in StoreManifests :
        /\ m.managers = <<>>
        /\ \A n \in DOMAIN m.projects : /\ is_none(m.projects[n].jira_project)
                                         /\ m.projects[n].project_owners # <<>>}

InManifests == IF workers = 1 THEN StoreManifests ELSE RaceManifests

\* File::create: the file exists and holds no bytes
created == [exists |-> TRUE, contents |-> <<>>]

\* what manifest.toml can be when the program starts: absent, left empty,
\* or a document without the projects table
StoreFiles ==
    {NoFile, created,
     [exists |-> TRUE,
      contents |-> <<[managers |-> <<>>, configured_project |-> "amcwb/ctrl",
                      profiles |-> EmptyMap]>>]}

StoreCall(p) == Call(p) /\ issued < MaxStoreOps

\* write_manifest(m): let mut file = File::create("manifest.toml").unwrap();
\* (loaded keeps what the file held when the save began)
Save(p, m) ==
    LET a == [NoArgs EXCEPT !.id = issued + 1, !.op = "save"]
    IN  /\ StoreCall(p)
        /\ file' = created
        /\ Suspend(p, [Idle EXCEPT !.pc = "save_write_all", !.args = a,
                                   !.loaded = read_manifest(file), !.manifest = m],
                   FALSE)

\* file.write_all(manifest_json.as_bytes()).unwrap();
SaveWriteAll(p) ==
    /\ h[p].pc = "save_write_all"
    /\ file' = written(h[p].manifest)
    /\ Return(p, [h[p] EXCEPT !.saves = 1], "Ok", TRUE)
    /\ UNCHANGED <<issued, workers>>

\* a load that takes every file to exist
first_run_never(f) == FALSE

\* !Path::new("manifest.toml").exists()
first_run(f) == ~f.exists

\* the frame of a load that has read the file
Read(fr) == [fr EXCEPT !.loads = 1, !.loaded = from_str_or_default(file.contents),
                       !.manifest = from_str_or_default(file.contents)]

\* read_manifest(): the file is created when absent, else read at once
LoadStart(p) ==
    LET a == [NoArgs EXCEPT !.id = issued + 1, !.op = "load"]
    IN  /\ StoreCall(p)
        /\ IF first_run(file)
           THEN /\ file' = created
                /\ Suspend(p, [Idle EXCEPT !.pc = "load_write_all", !.args = a], FALSE)
           ELSE /\ file' = file
                /\ Return(p, Read([Idle EXCEPT !.args = a]), "Ok", FALSE)

\* write_manifest(&Default::default()): the write_all
LoadWriteAll(p) ==
    /\ h[p].pc = "load_write_all"
    /\ file' = written(DefaultManifest)
    /\ Suspend(p, [h[p] EXCEPT !.pc = "load_read", !.saves = 1], FALSE)
    /\ UNCHANGED <<issued, workers>>

\* File::open, read_to_string and toml::from_str
LoadRead(p) ==
    /\ h[p].pc = "load_read"
    /\ Return(p, Read(h[p]), "Ok", FALSE)
    /\ UNCHANGED <<file, issued, workers>>

StoreInit ==
    /\ file \in StoreFiles
    /\ h = [p \in Handlers |-> Idle]
    /\ last = NoResult
    /\ issued = 0
    /\ workers \in 1..MaxInFlight

StoreNext ==
    \E p \in Handlers :
        \/ \E m \in InManifests : Save(p, m)
        \/ SaveWriteAll(p)
        \/ LoadStart(p)
        \/ LoadWriteAll(p)
        \/ LoadRead(p)

StoreSpec == StoreInit /\ [][StoreNext]_vars

\* ---------------------------------------------------------------- recovery
\* the handlers, started on a manifest.toml that does not parse: left empty
\* by a save that stopped after File::create, or a document that holds a
\* project and a profile but has lost its managers key
UnparseableFiles ==
    {created,
     [exists |-> TRUE,
      contents |-> <<[projects |-> insert(EmptyMap, "widgets",
                                          TomlProject(NewProject("C1"))),
                      configured_project |-> "amcwb/ctrl",
                      profiles |-> insert(EmptyMap, "U1",
                                          [github_username |-> "alice"])]>>]}

RecoverInit ==
    /\ file \in UnparseableFiles
    /\ h = [p \in Handlers |-> Idle]
    /\ last = NoResult
    /\ issued = 0
    /\ workers = 1

RecoverSpec == RecoverInit /\ [][Next]_vars

\* ---------------------------------------------------------------- lookups
\* the indexed lookups applied to a persisted Manifest
LookupNames == {"widgets", "C1"}

LookupProjects ==
    [slack_channel : Channels,
     github_repo : {None, Some("acme/widgets")},
     project_owners : {<<>>},
     jira_project : {None, Some("WID")}]

LookupManifests ==
    {[DefaultManifest EXCEPT !.projects = ps] :
        ps \in UNION {[ns -> LookupProjects] : ns \in SUBSET LookupNames}}

ChannelQueries == Channels

RepoQueries == {"acme/widgets", ""}

JiraQueries == {"WID", ""}

Lookup(op, query, result) ==
    /\ last' = [NoResult EXCEPT !.outcome = IF is_none(result) THEN "None" ELSE "Some",
                                !.args.op = op, !.args.value = query,
                                !.loaded = read_manifest(file), !.found = result]
    /\ UNCHANGED <<file, h, issued, workers>>

GetProjectBySlackChannel(slack_channel) ==
    Lookup("get_project_by_slack_channel", slack_channel,
           get_project_by_slack_channel(read_manifest(file), slack_channel))

GetProjectByGithubRepo(github_repo) ==
    \E result \in get_project_by_github_repo(read_manifest(file), github_repo) :
        Lookup("get_project_by_github_repo", github_repo, result)

GetProjectByJiraProject(jira_project) ==
    \E result \in get_project_by_jira_project(read_manifest(file), jira_project) :
        Lookup("get_project_by_jira_project", jira_project, result)

LookupInit ==
    /\ file \in {written(m) : m \in LookupManifests}
    /\ h = [p \in Handlers |-> Idle]
    /\ last = NoResult
    /\ issued = 0
    /\ workers = 1

LookupNext ==
    \/ \E c \in ChannelQueries : GetProjectBySlackChannel(c)
    \/ \E r \in RepoQueries : GetProjectByGithubRepo(r)
    \/ \E j \in JiraQueries : GetProjectByJiraProject(j)

LookupSpec == LookupInit /\ [][LookupNext]_vars

\* ---------------------------------------------------------------- views
\* the Manifest a load returns now
persisted == read_manifest(file)

\* a command is received in this step, and its arguments
Called == issued' = issued + 1

CalledArgs ==
    IF last'.args.id = issued' THEN last'.args
    ELSE h'[CHOOSE p \in Handlers : h'[p].args.id = issued'].args

\* the handler of the command received in this step is suspended at `label`
SuspendedAt(label) ==
    \E p \in Handlers : h'[p].args.id = issued' /\ h'[p].pc = label

\* the command received in this step has returned `result` at once
ReturnedAtOnce(result) == last'.args.id = issued' /\ last'.outcome = result

\* handler p returns in this step from `label`
Returns(p, label) == h[p].pc = label /\ h'[p].pc = "idle"

NoDup(vec) == \A i, j \in 1..Len(vec) : vec[i] = vec[j] => i = j

Count(vec, x) == Cardinality({i \in 1..Len(vec) : vec[i] = x})

OwnersOf(m, project_name) == m.projects[project_name].project_owners

UsernameOf(m, user_id) == m.profiles[user_id].github_username

\* ---------------------------------------------------------------- C1
\* C1: in every reachable state no project's owners list (persisted, or in
\* the local copy of a handler in flight) holds the same username twice; an
\* add that returned AlreadyOwner or Ok leaves exactly one entry of the
\* target's linked username in the owners of the named project.
C1_NoDuplicateOwners ==
    /\ \A n \in DOMAIN persisted.projects : NoDup(OwnersOf(persisted, n))
    /\ \A p \in Handlers : \A n \in DOMAIN h[p].manifest.projects :
           NoDup(OwnersOf(h[p].manifest, n))
    /\ (last.args.op = "add" /\ last.outcome \in {"AlreadyOwner", "Ok"}) =>
           Count(OwnersOf(last.manifest, last.args.project_name),
                 UsernameOf(last.manifest, last.args.user_id)) = 1

\* an add returned AlreadyOwner for a target whose username was added through
\* another chat identity linked to the same username
C1_Witness ==
    /\ last.args.op = "add"
    /\ last.outcome = "AlreadyOwner"
    /\ \E c \in DOMAIN last.manifest.profiles :
           /\ c # last.args.user_id
           /\ UsernameOf(last.manifest, c) = UsernameOf(last.manifest, last.args.user_id)
    /\ Len(OwnersOf(persisted, last.args.project_name)) = 1

\* ---------------------------------------------------------------- C2
WriteLabels == {"create_write", "delete_write", "add_write", "remove_write", "me_write"}

\* C2: when a handler saves after another command saved since it loaded, the
\* persisted Manifest is exactly its own local Manifest: outside its own
\* target everything is as it loaded it, so the earlier saver's update is
\* lost; of two overlapping creates of different names only the later
\* saver's project remains.
C2_LastSaveWins ==
    [][\A q \in Handlers :
          (h[q].pc \in WriteLabels /\ h'[q].pc = "idle" /\ h[q].missed # {}) =>
              /\ read_manifest(file') = h[q].manifest
              /\ \A n \in Names \ {h[q].args.project_name} :
                     get_project_by_name(read_manifest(file'), n)
                         = get_project_by_name(h[q].loaded, n)
              /\ \A c \in ChatIds :
                     (h[q].args.op = "me" /\ c = h[q].args.user_id)
                     \/ get_user_by_slack_id(read_manifest(file'), c)
                            = get_user_by_slack_id(h[q].loaded, c)
              /\ \A a \in h[q].missed :
                     (/\ ~contains_key(h[q].loaded.projects, a.project_name)
                      /\ a.op = "create"
                      /\ h[q].args.op = "create"
                      /\ a.project_name # h[q].args.project_name) =>
                         /\ ~contains_key(read_manifest(file').projects, a.project_name)
                         /\ contains_key(read_manifest(file').projects,
                                         h[q].args.project_name)]_vars

\* two creates of different names overlapped and only the later saver's
\* project is left
C2_Witness ==
    /\ last.args.op = "create"
    /\ last.outcome = "Ok"
    /\ \E a \in last.missed : a.op = "create" /\ a.project_name # last.args.project_name
    /\ DOMAIN persisted.projects = {last.args.project_name}

C4_CreateExisting ==
    [][(/\ Called
        /\ CalledArgs.op = "create"
        /\ contains_key(persisted.projects, CalledArgs.project_name)) =>
           /\ ReturnedAtOnce("AlreadyExists")
           /\ last'.saves = 0
           /\ file' = file]_vars

\* the existing project is bound to another channel and has an owner
C4_Witness ==
    /\ last.args.op = "create"
    /\ last.outcome = "AlreadyExists"
    /\ persisted.projects[last.args.project_name].slack_channel # last.args.channel_id
    /\ persisted.projects[last.args.project_name].project_owners # <<>>

\* ---------------------------------------------------------------- C5
\* C5 as stated: delete(n) for a name n not in the Manifest returns NotFound
\* and performs no write of manifest.toml at all.
C5_DeleteMissingNoWrite ==
    [][(/\ Called
        /\ CalledArgs.op = "delete"
        /\ ~contains_key(persisted.projects, CalledArgs.project_name)) =>
           /\ ReturnedAtOnce("NotFound")
           /\ file' = file]_vars

\* C5 amended: delete(n) for a name n not in the Manifest returns NotFound
\* without a save of its own and leaves the Manifest a load returns
\* unchanged; manifest.toml is written only when it did not exist, by the
\* load, with the default Manifest.
C5_DeleteMissing ==
    [][(/\ Called
        /\ CalledArgs.op = "delete"
        /\ ~contains_key(persisted.projects, CalledArgs.project_name)) =>
           /\ ReturnedAtOnce("NotFound")
           /\ last'.saves = 0
           /\ read_manifest(file') = persisted
           /\ file' = (IF file.exists THEN file
                       ELSE [exists |-> TRUE,
                             contents |-> <<to_string_pretty(DefaultManifest)>>])]_vars

\* a delete of a missing name returned NotFound while other projects exist
C5_Witness ==
    /\ last.args.op = "delete"
    /\ last.outcome = "NotFound"
    /\ DOMAIN persisted.projects # {}
    /\ persisted = last.loaded

\* ---------------------------------------------------------------- C6
\* C6: add-owner on an existing project for a target without a profile
\* sends the not-linked message, returns Unlinked, performs no save and
\* leaves manifest.toml as it was.
C6_AddUnlinked ==
    [][/\ (/\ Called
           /\ CalledArgs.op = "add"
           /\ contains_key(persisted.projects, CalledArgs.project_name)
           /\ ~contains_key(persisted.profiles, CalledArgs.user_id)) =>
              /\ SuspendedAt("add_unlinked")
              /\ file' = file
       /\ \A q \in Handlers : Returns(q, "add_unlinked") =>
              /\ last'.outcome = "Unlinked"
              /\ last'.saves = 0
              /\ last'.manifest = h[q].loaded
              /\ file' = file]_vars

C6_Witness ==
    /\ last.args.op = "add"
    /\ last.outcome = "Unlinked"
    /\ contains_key(persisted.projects, last.args.project_name)
    /\ ~contains_key(persisted.profiles, last.args.user_id)

\* ---------------------------------------------------------------- C7
\* C7: when add-owner(n, u) saves, remove-owner(n, u) on the saved Manifest
\* passes its checks and gives back the Manifest the add loaded, owners in
\* the same order; and a remove-owner(n, u) received right after a
\* successful add-owner(n, u) goes on to save exactly the Manifest the add
\* had loaded, and returns success.
C7_AddThenRemove ==
    [][/\ \A q \in Handlers : Returns(q, "add_write") =>
              LET after == read_manifest(file')
                  n == h[q].args.project_name
                  u == h[q].args.user_id
              IN  /\ last'.outcome = "Ok"
                  /\ remove_check(after, after, n, u) = "Ok"
                  /\ remove_owner(after, after, n, u) = h[q].loaded
       /\ (/\ Called
           /\ CalledArgs.op = "remove"
           /\ last.args.op = "add"
           /\ last.outcome = "Ok"
           /\ CalledArgs.project_name = last.args.project_name
           /\ CalledArgs.user_id = last.args.user_id
           /\ persisted = last.manifest) =>
              \E p \in Handlers :
                  /\ h'[p].args.id = issued'
                  /\ h'[p].pc = "remove_respond"
                  /\ h'[p].manifest = last.loaded
       /\ \A q \in Handlers : Returns(q, "remove_write") =>
              /\ last'.outcome = "Ok"
              /\ h[q].missed = {} => read_manifest(file') = h[q].manifest]_vars

\* a remove-owner succeeded and the project is left with the owners it had
\* before the add
C7_Witness ==
    /\ last.args.op = "remove"
    /\ last.outcome = "Ok"
    /\ last.missed = {}
    /\ contains(OwnersOf(last.loaded, last.args.project_name),
                UsernameOf(last.loaded, last.args.user_id))
    /\ ~contains(OwnersOf(persisted, last.args.project_name),
                 UsernameOf(persisted, last.args.user_id))

\* ---------------------------------------------------------------- C8
\* C8: link-identity(c, b) never fails; the Manifest it saves has the
\* profiles it loaded plus exactly one profile for c, with username b,
\* whatever c was linked to before; when c was already linked to b the
\* Manifest, and the file if nobody saved in between, stay as they were.
C8_LinkOverwrites ==
    [][/\ (/\ Called
           /\ CalledArgs.op = "me"
           /\ CalledArgs.subcommand = "github") =>
              \E p \in Handlers :
                  /\ h'[p].args.id = issued'
                  /\ h'[p].pc = "me_respond"
                  /\ get_user_by_slack_id(h'[p].manifest, CalledArgs.user_id)
                         = Some([github_username |-> CalledArgs.value])
                  /\ DOMAIN h'[p].manifest.profiles
                         = DOMAIN persisted.profiles \cup {CalledArgs.user_id}
                  /\ \A c \in DOMAIN persisted.profiles \ {CalledArgs.user_id} :
                         h'[p].manifest.profiles[c] = persisted.profiles[c]
                  /\ get_user_by_slack_id(persisted, CalledArgs.user_id)
                         = Some([github_username |-> CalledArgs.value])
                     => h'[p].manifest = persisted
       /\ \A q \in Handlers : Returns(q, "me_write") =>
              /\ last'.outcome = "Ok"
              /\ get_user_by_slack_id(read_manifest(file'), h[q].args.user_id)
                     = Some([github_username |-> h[q].args.value])
              /\ (h[q].missed = {} /\ h[q].manifest = h[q].loaded) => file' = file]_vars

\* a link-identity replaced another username
C8_Witness ==
    /\ last.args.op = "me"
    /\ last.outcome = "Ok"
    /\ contains_key(last.loaded.profiles, last.args.user_id)
    /\ UsernameOf(last.loaded, last.args.user_id) # last.args.value
    /\ get_user_by_slack_id(persisted, last.args.user_id)
           = Some([github_username |-> last.args.value])

\* ---------------------------------------------------------------- C9
SuccessTexts == {"created", "deleted", "added", "removed", "repository_set",
                 "username_set"}

\* C9: a mutating command's success message has been delivered only if its
\* save has completed.
C9_SuccessAfterSave ==
    \A p \in Handlers :
        (\E i \in 1..Len(h[p].sent) : h[p].sent[i] \in SuccessTexts) => h[p].saves >= 1

\* ---------------------------------------------------------------- C10
\* C10: every command that has returned has had exactly one message
\* delivered to the invoking channel.
C10_OneResponse == last.outcome # NoArg => Len(last.sent) = 1

\* ---------------------------------------------------------------- C11
\* the tokens of the command table's texts
CreateWidgets == <<<<"create">>, <<"widgets">>>>

\* C11: the command text 'create widgets' from channel C, received when no
\* project 'widgets' exists, yields success and a project 'widgets' bound to
\* C (and so on for the other verbs of the command table).
C11_RouterDispatches ==
    (/\ last.args.op = "on_slash_commands"
     /\ split_whitespace(last.args.text) = CreateWidgets) =>
        /\ last.outcome = "Ok"
        /\ get_project_by_name(persisted, "widgets")
               = Some(NewProject(last.args.channel_id))

\* ---------------------------------------------------------------- C12
\* the verbs of the command table and the arguments each requires
RequiredArgs ==
    [help |-> 0, list |-> 0, project |-> 1, create |-> 1, delete |-> 1,
     add |-> 2, remove |-> 2, github |-> 2, me |-> 2]

InvalidText(text) ==
    LET opts == split_whitespace(text)
    IN  \/ opts = <<>>
        \/ Len(opts[1]) # 1
        \/ opts[1][1] \notin DOMAIN RequiredArgs
        \/ Len(opts) - 1 < RequiredArgs[opts[1][1]]

\* C12: a command text that is empty, whose first token is not exactly one
\* of the verbs, or that has fewer arguments than its verb requires goes to
\* command_not_found and returns InvalidCommand; neither such a command nor
\* help loads or saves the Manifest.
C12_InvalidCommand ==
    [][/\ \A q \in Handlers :
              (h[q].pc = "ack" /\ h'[q].pc # "ack" /\ InvalidText(h[q].args.text)) =>
                  h'[q].pc = "command_not_found"
       /\ \A q \in Handlers : Returns(q, "command_not_found") =>
              /\ last'.outcome = "InvalidCommand"
              /\ last'.loads = 0
              /\ last'.saves = 0
       /\ \A q \in Handlers : Returns(q, "help") =>
              /\ last'.loads = 0
              /\ last'.saves = 0
       /\ (\E q \in Handlers : h[q].args.op = "on_slash_commands"
                                 \/ h'[q].args.op = "on_slash_commands") =>
              file' = file]_vars

\* a text whose verb differs from help only in case was rejected
C12_Witness ==
    /\ last.args.op = "on_slash_commands"
    /\ split_whitespace(last.args.text) = <<<<"Help">>>>
    /\ last.outcome = "InvalidCommand"
    /\ last.sent = <<"invalid_command">>

\* ---------------------------------------------------------------- C13
MutatingOps == {"create", "delete", "add", "remove", "github", "me"}

ReadOnlyOps == {"list", "project"}

\* the command reads or changes the Manifest (me does so for github only)
Touches(a) ==
    /\ a.op \in MutatingOps \cup ReadOnlyOps
    /\ a.op = "me" => a.subcommand = "github"

SuccessLabels == {"create_respond", "delete_respond", "add_respond", "remove_respond",
                  "github_respond", "me_respond"}

\* the command received in this step passes its checks
Succeeds == \E p \in Handlers : h'[p].args.id = issued' /\ h'[p].pc \in SuccessLabels

\* handler q returns in this step
Finishes(q) == h[q].pc # "idle" /\ h'[q].pc = "idle"

\* one load at the start, one save after the mutation on success, no save
\* otherwise; `first_run_excused` lets the load create an absent file
LoadSaveCycle(first_run_excused) ==
    /\ (Called /\ Touches(CalledArgs)) =>
           /\ \/ \E p \in Handlers : /\ h'[p].args.id = issued'
                                      /\ h'[p].loads = 1
                                      /\ h'[p].loaded = persisted
              \/ /\ last'.args.id = issued'
                 /\ last'.loads = 1
                 /\ last'.loaded = persisted
                 /\ last'.manifest = persisted
                 /\ last'.saves = 0
                 /\ last'.outcome # "Ok"
           /\ (CalledArgs.op \in ReadOnlyOps \/ ~Succeeds) =>
                  \/ file' = file
                  \/ first_run_excused /\ ~file.exists /\ file' = written(DefaultManifest)
           /\ (CalledArgs.op = "github" /\ Succeeds) =>
                  \E p \in Handlers : /\ h'[p].args.id = issued'
                                      /\ h'[p].saves = 1
                                      /\ file' = written(h'[p].manifest)
    /\ \A q \in Handlers : (h[q].pc # "idle" /\ h'[q].pc # "idle") =>
           /\ h'[q].loads = h[q].loads
           /\ h'[q].loaded = h[q].loaded
           /\ h'[q].manifest = h[q].manifest
           /\ h'[q].saves = h[q].saves
    /\ \A q \in Handlers : Finishes(q) =>
           /\ last'.loads = (IF Touches(h[q].args) THEN 1 ELSE 0)
           /\ last'.loaded = h[q].loaded
           /\ last'.manifest = h[q].manifest
           /\ (last'.outcome = "Ok" /\ h[q].args.op \in MutatingOps) =>
                  /\ last'.saves = 1
                  /\ h[q].pc \in WriteLabels =>
                         h[q].saves = 0 /\ file' = written(h[q].manifest)
                  /\ h[q].pc \notin WriteLabels => file' = file
           /\ (last'.outcome # "Ok" \/ h[q].args.op \notin MutatingOps) =>
                  /\ last'.saves = 0
                  /\ last'.manifest = h[q].loaded
                  /\ file' = file
    /\ (~Called /\ \A q \in Handlers : ~Finishes(q)) => file' = file

\* C13 as stated: every command that touches the Manifest loads it exactly
\* once, at its start; a mutating command saves exactly once, after its
\* mutation, when it succeeds and performs no save when it fails; list and
\* project perform no save when persisted state exists.
C13_OneLoadOneSaveAlways == [][LoadSaveCycle(FALSE)]_vars

\* C13 amended: as above, except that when manifest.toml does not exist the
\* load of any of these commands first saves the default Manifest, so a
\* failing command then performs that one save and a succeeding one two.
C13_OneLoadOneSave == [][LoadSaveCycle(TRUE)]_vars

\* a remove-owner loaded once, saved once, and what it saved is persisted
C13_Witness ==
    /\ last.args.op = "remove"
    /\ last.outcome = "Ok"
    /\ last.loads = 1
    /\ last.saves = 1
    /\ last.manifest # last.loaded
    /\ persisted = last.manifest

\* ---------------------------------------------------------------- C14
\* a load returns in this step
LoadReturns == last'.args.op = "load" /\ last'.args.id # last.args.id

\* a load is called in this step
LoadCalled == Called /\ CalledArgs.op = "load"

Quiet == \A q \in Handlers : h[q].pc = "idle"

\* C14: a load that reads manifest.toml while a save of another invocation
\* is between its File::create and its write_all, and no other save has
\* completed since that save began, returns the Manifest persisted before
\* that save or the Manifest being saved.
C14_LoadAllOrNothing ==
    [][LoadReturns =>
          \A q \in Handlers :
              (/\ h[q].pc = "save_write_all"
               /\ h'[q].pc = "save_write_all"
               /\ h[q].missed = {}) =>
                  last'.loaded \in {h[q].loaded, h[q].manifest}]_vars

\* ---------------------------------------------------------------- C15
\* C15: right after write_manifest(m) a load returns m, and a load called
\* when the last store operation was a save of m and nothing else is in
\* flight returns a Manifest equal to m and leaves the file as it is.
C15_StoreRoundTrip ==
    [][/\ \A q \in Handlers : Returns(q, "save_write_all") =>
              /\ read_manifest(file') = h[q].manifest
              /\ last'.manifest = h[q].manifest
       /\ (LoadCalled /\ last.args.op = "save" /\ Quiet) =>
              /\ LoadReturns
              /\ last'.loaded = last.manifest
              /\ \A n \in DOMAIN last.manifest.projects :
                     last'.loaded.projects[n] = last.manifest.projects[n]
              /\ file' = file]_vars

\* a load gave back a saved Manifest with a project whose repository is set
\* and whose tracker is not, two owners, a manager and a profile
C15_Witness ==
    /\ last.args.op = "load"
    /\ last.saves = 0
    /\ file = written(last.loaded)
    /\ contains_key(last.loaded.projects, "widgets")
    /\ last.loaded.projects["widgets"].github_repo = Some("acme/widgets")
    /\ is_none(last.loaded.projects["widgets"].jira_project)
    /\ Len(last.loaded.projects["widgets"].project_owners) = 2
    /\ last.loaded.managers # <<>>
    /\ last.loaded.configured_project # DefaultManifest.configured_project
    /\ contains_key(last.loaded.profiles, "U1")

\* ---------------------------------------------------------------- C16
\* C16: a load called when manifest.toml does not exist creates the file,
\* writes the default Manifest to it and goes on to read it; undisturbed by
\* other invocations it returns a Manifest with no projects, no profiles, no
\* managers and configured_project "amcwb/ctrl", and the file then exists
\* and holds that default.
C16_FirstRun ==
    [][/\ (LoadCalled /\ ~file.exists) =>
              /\ SuspendedAt("load_write_all")
              /\ file' = created
       /\ \A q \in Handlers : (h[q].pc = "load_write_all" /\ h'[q].pc # "load_write_all") =>
              /\ h'[q].pc = "load_read"
              /\ file' = written(DefaultManifest)
       /\ \A q \in Handlers :
              (/\ Returns(q, "load_read")
               /\ h[q].missed = {}
               /\ \A r \in Handlers \ {q} : h[r].pc = "idle") =>
                  /\ last'.outcome = "Ok"
                  /\ last'.loaded.projects = EmptyMap
                  /\ last'.loaded.profiles = EmptyMap
                  /\ last'.loaded.managers = <<>>
                  /\ last'.loaded.configured_project = "amcwb/ctrl"
                  /\ file'.exists
                  /\ file' = written(last'.loaded)]_vars

\* a first load has written the default and returned it
C16_Witness ==
    /\ last.args.op = "load"
    /\ last.args.id = 1
    /\ last.saves = 1
    /\ last.loaded = DefaultManifest
    /\ file = written(DefaultManifest)

\* ---------------------------------------------------------------- C17
\* C17: a load called when manifest.toml exists and does not parse returns
\* the default Manifest, without an error and without a write: the file is
\* left as it was.
C17_UnparseableGivesDefault ==
    [][/\ (LoadCalled /\ file.exists /\ ~parses(file.contents)) =>
              /\ LoadReturns
              /\ last'.outcome = "Ok"
              /\ last'.loaded = DefaultManifest
              /\ last'.saves = 0
              /\ file' = file
       /\ \A q \in Handlers : (Returns(q, "load_read") /\ ~parses(file.contents)) =>
              /\ last'.loaded = DefaultManifest
              /\ file' = file]_vars

\* a load returned the default although the file holds a document, one
\* without the projects table, which is still there
C17_Witness ==
    /\ last.args.op = "load"
    /\ last.outcome = "Ok"
    /\ last.loaded = DefaultManifest
    /\ last.saves = 0
    /\ file.exists
    /\ file.contents # <<>>
    /\ ~parses(file.contents)

\* ---------------------------------------------------------------- C18
\* the lookup found a project whose `field` is `value`, if there is one, and
\* nothing otherwise
FoundBy(m, field, value) ==
    IF \E n \in DOMAIN m.projects : m.projects[n][field] = value
    THEN ~is_none(last.found) /\ unwrap(last.found)[field] = value
    ELSE is_none(last.found)

\* C18: the lookup by bound channel returns a project whose channel is the
\* query whenever one exists and none otherwise; the lookups by repository
\* and by tracker key return a project whose field is set and equal to the
\* query if there is one and none otherwise, so never a project whose
\* field is unset.
C18_IndexedLookups ==
    /\ last.args.op = "get_project_by_slack_channel" =>
           FoundBy(last.loaded, "slack_channel", last.args.value)
    /\ last.args.op = "get_project_by_github_repo" =>
           FoundBy(last.loaded, "github_repo", Some(last.args.value))
    /\ last.args.op = "get_project_by_jira_project" =>
           FoundBy(last.loaded, "jira_project", Some(last.args.value))

\* ---------------------------------------------------------------- C19
\* the position of x in a list without duplicates
Pos(vec, x) == CHOOSE k \in 1..Len(vec) : vec[k] = x

\* `after` is `before` without x, in the same order
Without(before, after, x) ==
    /\ Range(after) = Range(before) \ {x}
    /\ NoDup(after)
    /\ \A i, j \in 1..Len(after) :
           i < j => Pos(before, after[i]) < Pos(before, after[j])

\* m and m2 differ at most in the owners of project n
SameButOwners(m, m2, n) ==
    m2 = [m EXCEPT !.projects[n].project_owners = m2.projects[n].project_owners]

\* the outcome the checks must give for add (adding = TRUE) or remove
Expected(m, n, u, adding) ==
    IF ~contains_key(m.projects, n) THEN "NotFound"
    ELSE IF ~contains_key(m.profiles, u) THEN "Unlinked"
    ELSE IF adding /\ UsernameOf(m, u) \in Range(OwnersOf(m, n)) THEN "AlreadyOwner"
    ELSE IF ~adding /\ UsernameOf(m, u) \notin Range(OwnersOf(m, n)) THEN "NotOwner"
    ELSE "Ok"

\* what the command received in this step does, against what it must do
ChecksInOrder(op, unlinked, respond) ==
    (Called /\ CalledArgs.op = op) =>
        LET n == CalledArgs.project_name
            u == CalledArgs.user_id
            m == persisted
            e == Expected(m, n, u, op = "add")
        IN  /\ e \in {"NotFound", "AlreadyOwner", "NotOwner"} =>
                   /\ ReturnedAtOnce(e)
                   /\ last'.manifest = m
                   /\ last'.saves = 0
                   /\ read_manifest(file') = m
            /\ e = "Unlinked" =>
                   /\ SuspendedAt(unlinked)
                   /\ read_manifest(file') = m
            /\ e = "Ok" =>
                   \E p \in Handlers :
                       /\ h'[p].args.id = issued'
                       /\ h'[p].pc = respond
                       /\ SameButOwners(m, h'[p].manifest, n)
                       /\ IF op = "add"
                          THEN OwnersOf(h'[p].manifest, n)
                                   = Append(OwnersOf(m, n), UsernameOf(m, u))
                          ELSE Without(OwnersOf(m, n), OwnersOf(h'[p].manifest, n),
                                       UsernameOf(m, u))

\* C19: add-owner and remove-owner give NotFound for an absent project even
\* when the target is unlinked, else Unlinked for an unlinked target, else
\* AlreadyOwner (add, username in owners) or NotOwner (remove, username not
\* in owners); only then add appends the username at the end of owners and
\* remove deletes it keeping the order of the others; every failure leaves
\* the Manifest unchanged.  The checks and the effect of remove are also
\* evaluated on every Manifest that an add-owner saves, for every project
\* and chat identity.
C19_CheckOrder ==
    [][/\ ChecksInOrder("add", "add_unlinked", "add_respond")
       /\ ChecksInOrder("remove", "remove_unlinked", "remove_respond")
       /\ \A q \in Handlers :
              (Returns(q, "add_unlinked") \/ Returns(q, "remove_unlinked")) =>
                  /\ last'.outcome = "Unlinked"
                  /\ last'.manifest = h[q].loaded
                  /\ last'.saves = 0
                  /\ file' = file
       /\ (\E q \in Handlers : Returns(q, "add_write")) =>
              LET m == read_manifest(file')
              IN  \A n \in Names, u \in ChatIds :
                      /\ remove_check(m, m, n, u) = Expected(m, n, u, FALSE)
                      /\ add_check(m, m, n, u) = Expected(m, n, u, TRUE)
                      /\ Expected(m, n, u, FALSE) = "Ok" =>
                             LET m2 == remove_owner(m, m, n, u)
                             IN  /\ SameButOwners(m, m2, n)
                                 /\ Without(OwnersOf(m, n), OwnersOf(m2, n),
                                            UsernameOf(m, u))]_vars

\* an add-owner appended a second owner behind the first, and removing the
\* first owner from what it saved would leave the second
C19_Witness ==
    /\ last.args.op = "add"
    /\ last.outcome = "Ok"
    /\ Len(OwnersOf(last.loaded, last.args.project_name)) = 1
    /\ OwnersOf(persisted, last.args.project_name)
           = Append(OwnersOf(last.loaded, last.args.project_name),
                    UsernameOf(last.loaded, last.args.user_id))
    /\ \E u \in ChatIds \ {last.args.user_id} :
           /\ remove_check(persisted, persisted, last.args.project_name, u) = "Ok"
           /\ OwnersOf(remove_owner(persisted, persisted, last.args.project_name, u),
                       last.args.project_name)
                  = <<UsernameOf(last.loaded, last.args.user_id)>>

\* ---------------------------------------------------------------- C20
\* map2 is map except, at most, at key k
SameButKey(map, map2, k) ==
    /\ DOMAIN map2 \ {k} = DOMAIN map \ {k}
    /\ \A x \in DOMAIN map \ {k} : map2[x] = map[x]

\* what a successful command with arguments a may change from `before`
OnlyTarget(a, before, after) ==
    /\ after.managers = before.managers
    /\ after.configured_project = before.configured_project
    /\ a.op # "me" => after.profiles = before.profiles
    /\ a.op = "me" =>
           /\ after.projects = before.projects
           /\ SameButKey(before.profiles, after.profiles, a.user_id)
           /\ get_user_by_slack_id(after, a.user_id) = Some([github_username |-> a.value])
    /\ a.op # "me" => SameButKey(before.projects, after.projects, a.project_name)
    /\ a.op = "create" =>
           /\ ~contains_key(before.projects, a.project_name)
           /\ contains_key(after.projects, a.project_name)
    /\ a.op = "delete" =>
           /\ contains_key(before.projects, a.project_name)
           /\ ~contains_key(after.projects, a.project_name)
    /\ a.op \in {"add", "remove"} =>
           /\ SameButOwners(before, after, a.project_name)
           /\ OwnersOf(after, a.project_name) # OwnersOf(before, a.project_name)
    /\ a.op = "github" =>
           after = [before EXCEPT !.projects[a.project_name].github_repo = Some(a.value)]

\* C20: when a successful create, delete, add-owner, remove-owner,
\* set-repository or link-identity saves and no other command has saved
\* since it loaded, the persisted Manifest differs from the one it loaded
\* only in its target: the presence of the named project, the owners of the
\* named project, the repository of the named project, or the profile of
\* the invoking chat identity; the other projects and profiles, managers
\* and configured_project are as before.
C20_OnlyTarget ==
    [][/\ \A q \in Handlers :
              (h[q].pc \in WriteLabels /\ Finishes(q) /\ h[q].missed = {}) =>
                  OnlyTarget(h[q].args, h[q].loaded, read_manifest(file'))
       /\ (Called /\ CalledArgs.op = "github" /\ Succeeds) =>
              OnlyTarget(CalledArgs, persisted, read_manifest(file'))]_vars

\* a delete took one of two projects away and left the other, with its
\* owner, and the profiles in place
C20_Witness ==
    /\ last.args.op = "delete"
    /\ last.outcome = "Ok"
    /\ last.missed = {}
    /\ DOMAIN last.loaded.projects = Names
    /\ DOMAIN persisted.projects = Names \ {last.args.project_name}
    /\ \E n \in DOMAIN persisted.projects : OwnersOf(persisted, n) # <<>>
    /\ persisted.profiles # EmptyMap
    /\ persisted.profiles = last.loaded.profiles

\* ---------------------------------------------------------------- C21
\* C21: while manifest.toml does not parse, a command that is read-only or
\* fails, and every step that is not a save, leaves the file as it is; the
\* save of a successful mutating command that loaded it writes the default
\* Manifest plus that command's own change, so the file parses again and
\* holds no project and no profile but the one the command made; once the
\* file parses it keeps parsing.
C21_RecoveryOverwrites ==
    [][/\ \A q \in Handlers :
              (h[q].pc \in WriteLabels /\ Finishes(q) /\ ~parses(file.contents)) =>
                  LET after == read_manifest(file')
                  IN  /\ h[q].loaded = DefaultManifest
                      /\ last'.outcome = "Ok"
                      /\ parses(file'.contents)
                      /\ file' = written(h[q].manifest)
                      /\ OnlyTarget(h[q].args, DefaultManifest, after)
                      /\ DOMAIN after.projects \subseteq {h[q].args.project_name}
                      /\ DOMAIN after.profiles \subseteq {h[q].args.user_id}
       /\ (Called /\ ~parses(file.contents)) =>
              /\ CalledArgs.op \in {"delete", "add", "remove", "github", "project"} =>
                     ReturnedAtOnce("NotFound")
              /\ (CalledArgs.op \in ReadOnlyOps \/ ~Succeeds) => file' = file
              /\ Succeeds => CalledArgs.op \in {"create", "me"} /\ file' = file
       /\ (~parses(file.contents) /\ \A q \in Handlers : h[q].pc \notin WriteLabels) =>
              file' = file
       /\ parses(file.contents) => parses(file'.contents)]_vars

\* the third command of a run loaded the default, so the two before it left
\* the unparseable file in place, and its link-identity is all that is
\* persisted now
C21_Witness ==
    /\ last.args.op = "me"
    /\ last.args.id = 3
    /\ last.outcome = "Ok"
    /\ last.loaded = DefaultManifest
    /\ parses(file.contents)
    /\ persisted = set_user_github_username(DefaultManifest, last.args.user_id,
                                            last.args.value)

====
